---- MODULE Spec2Model ----
(***************************************************************************)
(* Model of src/peer_graph.py: the Peer registry (online peers and their   *)
(* connected sets).  Every method is modelled as a sequence of steps, one  *)
(* per access to self._peers, so that the same step definitions give the   *)
(* one-call-at-a-time behaviour (Spec: a call runs its steps to the end)   *)
(* and the behaviour under concurrent callers (SpecConc: steps of several  *)
(* calls interleave; the source takes no lock anywhere).                   *)
(*                                                                         *)
(* self._peers is a Python dict: it keeps insertion order, pop() leaves a  *)
(* hole that a live iterator skips, and a new key goes to the end.  It is  *)
(* modelled as a sequence of entries in which a popped entry becomes a     *)
(* tombstone (id = Tomb); tombstones are dropped whenever no iterator is   *)
(* alive, which no caller can tell apart from keeping them.  A dict resize *)
(* during a live iteration is not modelled.  One step does one lookup in   *)
(* self._peers together with the set method applied to what it found.      *)
(***************************************************************************)
EXTENDS Integers, Sequences, FiniteSets, TLC

\* ---- bounds ----
NumIds == 3
MaxN == 2
NumThreads == 2
NumMsgs == 1
MaxNode == 2
MaxEdges == 3

\* ---- program constant: def __init__(self, N=1024) ----
DefaultN == 1024

Ids == 1..NumIds
NValues == (1..MaxN) \cup {DefaultN}
Threads == 1..NumThreads
Msgs == 1..NumMsgs
Tomb == 0

VARIABLES
    N,          \* self.N
    peers,      \* self._peers, in dict order: entries [id, connected]
    op,         \* the last call made one-at-a-time: [name, a, b]
    result,     \* what that call returned or raised
    th,         \* per concurrent caller: the frame of its call
    before,     \* self._peers as it was when the last call was made
    sent,       \* the messages printed by send_msg, in order
    instance,   \* Cache_Singleton._instance as seen from Peer
    handles,    \* the objects that Peer(...) has returned so far
    graph,      \* Graph_BFS.graph: key |-> list of adjacent nodes
    sp,         \* the Graph_Shortest_Path object: [default, map]
    gop,        \* the last call on a graph object: [name, a, b]
    gres,       \* what that call raised or returned: [raised, isNone, val]
    gout        \* what that call printed

gvars == <<graph, sp, gop, gres, gout>>

vars == <<N, peers, op, result, th, before, sent, instance, handles,
          graph, sp, gop, gres, gout>>

\* ---- the dict self._peers ----
Entry(id, S) == [id |-> id, connected |-> S]

Live(P) == {i \in DOMAIN P : P[i].id # Tomb}

Keys(P) == {P[i].id : i \in Live(P)}

IsLive(e) == e.id # Tomb

Compact(P) == SelectSeq(P, IsLive)

Slot(P, id) == CHOOSE i \in Live(P) : P[i].id = id

SetConnected(P, id, S) == [P EXCEPT ![Slot(P, id)].connected = S]

\* ---- read operations ----
isonline(P, id) == id \in Keys(P)

all_online(P) == [i \in 1..Len(Compact(P)) |-> Compact(P)[i].id]

connected(P, id) == P[Slot(P, id)].connected

num_connected(P, id) == Cardinality(connected(P, id))

\* ---- the methods of the object stored under 'connected' ----
\* set_online stores a set ({*()}), so these are set.append and set.remove:
\* a set has no append (AttributeError), and set.remove of a missing
\* element raises KeyError.
NoExc == "none"

\* faulty variant: the object is a list-like container that has append
append_list(S, x) == [raised |-> NoExc, val |-> S \cup {x}]

append(S, x) == [raised |-> "AttributeError", val |-> S]

remove(S, x) ==
    IF x \in S THEN [raised |-> NoExc, val |-> S \ {x}]
               ELSE [raised |-> "KeyError", val |-> S]

\* except ValueError: pass
except_ValueError(exc) == exc = "ValueError"

\* ---- frames: the position of one call ----
\* the first line of each method
Entry_pc(name) ==
    CASE name = "set_online" -> "s43"
      [] name = "set_offline" -> "o50"
      [] name = "connect" -> "c59"
      [] OTHER -> "idle"

Frame(name, a, b) ==
    [pc |-> Entry_pc(name), name |-> name, a |-> a, b |-> b,
     pos |-> 0, used |-> 0, left |-> 0, k |-> 0, result |-> "running"]

IdleFrame == [Frame("none", 0, 0) EXCEPT !.result = "None"]

Goto(f, pc) == [f EXCEPT !.pc = pc]

\* the call returns or raises: its locals die, its outcome stays visible
Return(f, r) ==
    [f EXCEPT !.pc = "done", !.result = r,
              !.pos = 0, !.used = 0, !.left = 0, !.k = 0]

Out(P, f) == [peers |-> P, f |-> f]

\* ---- set_online(id), id = f.a ----
\* faulty variant: an id that is already online is stored afresh, at the end
set_online_43_reinserts(P, n, f) ==
    IF ~isonline(P, f.a) THEN Out(P, Goto(f, "s44"))
    ELSE Out(Append(SelectSeq(P, LAMBDA e : e.id # f.a), Entry(f.a, {})),
             Return(f, "None"))

\* if id not in self._peers:
set_online_43(P, n, f) ==
    IF ~isonline(P, f.a) THEN Out(P, Goto(f, "s44"))
                         ELSE Out(P, Return(f, "None"))

\* self._peers[id] = {'connected': {*()}}
\* (a key that is present by now keeps its place and gets the new value)
set_online_44(P, n, f) ==
    IF isonline(P, f.a)
    THEN Out(SetConnected(P, f.a, {}), Return(f, "None"))
    ELSE Out(Append(P, Entry(f.a, {})), Return(f, "None"))

\* ---- set_offline(id), id = f.a ----
\* if id in self._peers:
set_offline_50(P, n, f) ==
    IF isonline(P, f.a) THEN Out(P, Goto(f, "o51"))
                        ELSE Out(P, Return(f, "None"))

\* faulty variant: the id is not popped
set_offline_51_no_pop(P, n, f) == Out(P, Goto(f, "o52"))

\* self._peers.pop(id, None)
set_offline_51(P, n, f) ==
    IF isonline(P, f.a)
    THEN Out([P EXCEPT ![Slot(P, f.a)] = Entry(Tomb, {})], Goto(f, "o52"))
    ELSE Out(P, Goto(f, "o52"))

\* for k in self._peers:   (the iterator is created)
set_offline_52(P, n, f) ==
    Out(P, [f EXCEPT !.pc = "o52n", !.pos = 0,
                     !.used = Cardinality(Live(P)),
                     !.left = Cardinality(Live(P))])

\* for k in self._peers:   (the iterator is advanced)
set_offline_52n(P, n, f) ==
    LET rest == {i \in Live(P) : i > f.pos} IN
    IF Cardinality(Live(P)) # f.used THEN Out(P, Return(f, "RuntimeError"))
    ELSE IF rest = {} THEN Out(P, Return(f, "None"))
    ELSE IF f.left = 0 THEN Out(P, Return(f, "RuntimeError"))
    ELSE LET i == CHOOSE j \in rest : \A m \in rest : j <= m IN
         Out(P, [f EXCEPT !.pc = "o54", !.pos = i, !.left = f.left - 1,
                          !.k = P[i].id])

\* try: self._peers[k]['connected'].remove(id)  except ValueError: pass
set_offline_54(P, n, f) ==
    IF ~isonline(P, f.k) THEN Out(P, Return(f, "KeyError"))
    ELSE LET r == remove(connected(P, f.k), f.a) IN
         IF r.raised = NoExc
         THEN Out(SetConnected(P, f.k, r.val), Goto(f, "o52n"))
         ELSE IF except_ValueError(r.raised) THEN Out(P, Goto(f, "o52n"))
         ELSE Out(P, Return(f, r.raised))

\* ---- connect(id_from, id_to), id_from = f.a, id_to = f.b ----
\* if id_from == id_to: raise Exception('Cannot connect to self')
connect_59(P, n, f) ==
    IF f.a = f.b THEN Out(P, Return(f, "Cannot connect to self"))
                 ELSE Out(P, Goto(f, "c61a"))

\* if id_from in self._peers and ...        else: return False
connect_61a(P, n, f) ==
    IF isonline(P, f.a) THEN Out(P, Goto(f, "c61b"))
                        ELSE Out(P, Return(f, "False"))

\* faulty variant: only id_from is checked to be online
connect_61b_unchecked(P, n, f) == Out(P, Goto(f, "c62"))

\* ... and id_to in self._peers:            else: return False
connect_61b(P, n, f) ==
    IF isonline(P, f.b) THEN Out(P, Goto(f, "c62"))
                        ELSE Out(P, Return(f, "False"))

\* faulty variant: the degree check is missing, the edge is stored at once
connect_62_no_degree_check(P, n, f) ==
    IF ~isonline(P, f.a) \/ ~isonline(P, f.b) THEN Out(P, Return(f, "KeyError"))
    ELSE IF f.b \in connected(P, f.a) THEN Out(P, Return(f, "True"))
    ELSE Out(SetConnected(SetConnected(P, f.a, connected(P, f.a) \cup {f.b}),
                          f.b, connected(P, f.b) \cup {f.a}),
             Return(f, "True"))

\* if id_to in self._peers[id_from]['connected']: return True
connect_62(P, n, f) ==
    IF ~isonline(P, f.a) THEN Out(P, Return(f, "KeyError"))
    ELSE IF f.b \in connected(P, f.a) THEN Out(P, Return(f, "True"))
    ELSE Out(P, Goto(f, "c65a"))

\* faulty variant: a full id_from is reported like an offline one
connect_65a_returns_false(P, n, f) ==
    IF ~isonline(P, f.a) THEN Out(P, Return(f, "KeyError"))
    ELSE IF num_connected(P, f.a) < n - 1 THEN Out(P, Goto(f, "c65b"))
    ELSE Out(P, Return(f, "False"))

\* if len(self._peers[id_from]['connected']) < self.N-1 and ...
\* else: raise Exception(f'Too many connections n > {self.N}')
connect_65a(P, n, f) ==
    IF ~isonline(P, f.a) THEN Out(P, Return(f, "KeyError"))
    ELSE IF num_connected(P, f.a) < n - 1 THEN Out(P, Goto(f, "c65b"))
    ELSE Out(P, Return(f, "Too many connections"))

\* ... and len(self._peers[id_to]['connected']) < self.N-1:
connect_65b(P, n, f) ==
    IF ~isonline(P, f.b) THEN Out(P, Return(f, "KeyError"))
    ELSE IF num_connected(P, f.b) < n - 1 THEN Out(P, Goto(f, "c66"))
    ELSE Out(P, Return(f, "Too many connections"))

\* faulty variant: only the id_from side of the edge is stored
connect_66_one_sided(P, n, f) ==
    IF ~isonline(P, f.a) THEN Out(P, Return(f, "KeyError"))
    ELSE Out(SetConnected(P, f.a, connected(P, f.a) \cup {f.b}),
             Return(f, "True"))

\* self._peers[id_from]['connected'].append(id_to)
connect_66(P, n, f) ==
    IF ~isonline(P, f.a) THEN Out(P, Return(f, "KeyError"))
    ELSE LET r == append(connected(P, f.a), f.b) IN
         IF r.raised = NoExc
         THEN Out(SetConnected(P, f.a, r.val), Goto(f, "c67"))
         ELSE Out(P, Return(f, r.raised))

\* self._peers[id_to]['connected'].append(id_from); return True
connect_67(P, n, f) ==
    IF ~isonline(P, f.b) THEN Out(P, Return(f, "KeyError"))
    ELSE LET r == append(connected(P, f.b), f.a) IN
         IF r.raised = NoExc
         THEN Out(SetConnected(P, f.b, r.val), Return(f, "True"))
         ELSE Out(P, Return(f, r.raised))

\* ---- one step of a call ----
\* (line 59 compares the two arguments only, so it is taken together with
\* the first access to self._peers that follows it)
Step(P, n, f) ==
    CASE f.pc = "s43" -> set_online_43(P, n, f)
      [] f.pc = "s44" -> set_online_44(P, n, f)
      [] f.pc = "o50" -> set_offline_50(P, n, f)
      [] f.pc = "o51" -> set_offline_51(P, n, f)
      [] f.pc = "o52" -> set_offline_52(P, n, f)
      [] f.pc = "o52n" -> set_offline_52n(P, n, f)
      [] f.pc = "o54" -> set_offline_54(P, n, f)
      [] f.pc = "c59" -> LET o == connect_59(P, n, f) IN
                         IF o.f.pc = "done" THEN o
                         ELSE connect_61a(o.peers, n, o.f)
      [] f.pc = "c61a" -> connect_61a(P, n, f)
      [] f.pc = "c61b" -> connect_61b(P, n, f)
      [] f.pc = "c62" -> connect_62(P, n, f)
      [] f.pc = "c65a" -> connect_65a(P, n, f)
      [] f.pc = "c65b" -> connect_65b(P, n, f)
      [] f.pc = "c66" -> connect_66(P, n, f)
      [] f.pc = "c67" -> connect_67(P, n, f)

\* a whole call, run without interruption
RECURSIVE Run(_, _, _)
Run(P, n, f) ==
    IF f.pc = "done" THEN Out(Compact(P), f)
    ELSE LET o == Step(P, n, f) IN Run(o.peers, n, o.f)

set_online(P, n, id) == Run(P, n, Frame("set_online", id, 0))

set_offline(P, n, id) == Run(P, n, Frame("set_offline", id, 0))

connect(P, n, id_from, id_to) == Run(P, n, Frame("connect", id_from, id_to))

\* ---- send_msg(id_from, id_to, msg) ----
\* self.connect(id_from, id_to, msg): connect is declared at line 58 with
\* two parameters besides self, so binding the third argument raises
\* TypeError before any line of connect runs
connect_3_args(P, n, id_from, id_to, msg) ==
    [peers |-> P, result |-> "TypeError"]

\* the whole method: what it raises or returns, the registry and the
\* printed messages afterwards
send_msg(P, n, S, id_from, id_to, msg) ==
    IF id_from = id_to
    THEN [peers |-> P, sent |-> S, result |-> "Cannot send message to self"]
    ELSE LET c == connect_3_args(P, n, id_from, id_to, msg) IN
         IF c.result = "True"
         THEN [peers |-> c.peers, result |-> "None",
               sent |-> Append(S, <<id_from, id_to, msg>>)]
         ELSE IF c.result = "False"
         THEN [peers |-> c.peers, sent |-> S, result |-> "None"]
         ELSE [peers |-> c.peers, sent |-> S, result |-> c.result]

\* ---- construction ----
None == 0

\* faulty variant: every construction makes a new object
Cache_Singleton_new_always(inst, fresh) == fresh

\* Cache_Singleton.__new__: the object Peer(...) is about to initialise
Cache_Singleton_new(inst, fresh) == IF inst = None THEN fresh ELSE inst

\* faulty variant: an object that is already set up keeps its _peers
Peer_init_keeps_peers(P, n) == [N |-> n, peers |-> P]

\* Peer.__init__: self.N = N; self._peers = {}
Peer_init(P, n) == [N |-> n, peers |-> <<>>]

\* ---- what the module can name ----
\* the module imports unittest and defaultdict and defines three classes;
\* any other free name raises NameError when the line that uses it runs
module_global(name) ==
    IF name \in {"unittest", "defaultdict", "Cache_Singleton", "Peer",
                 "Graph_BFS", "Graph_Shortest_Path"}
    THEN NoExc ELSE "NameError"

Range(q) == {q[i] : i \in DOMAIN q}

Raise(exc) == [raised |-> exc, isNone |-> FALSE, val |-> <<>>]

Ret(v) == [raised |-> NoExc, isNone |-> FALSE, val |-> v]

RetNone == [raised |-> NoExc, isNone |-> TRUE, val |-> <<>>]

\* ---- Graph_BFS ----
Nodes == 0..MaxNode

\* self.graph = defaultdict(list)
EmptyGraph == [k \in {} |-> <<>>]

\* defaultdict.__getitem__: a missing key is stored with list()
getitem_default(G, k) ==
    IF k \in DOMAIN G THEN G
    ELSE [x \in DOMAIN G \cup {k} |-> IF x = k THEN <<>> ELSE G[x]]

\* self.graph[u].append(v)
addEdge(G, u, v) == [getitem_default(G, u) EXCEPT ![u] = Append(@, v)]

RECURSIVE EdgeCount(_, _)
EdgeCount(G, D) ==
    IF D = {} THEN 0
    ELSE LET k == CHOOSE x \in D : TRUE IN Len(G[k]) + EdgeCount(G, D \ {k})

\* visited = [False] * len(self.graph): which subscripts the list takes,
\* and the cell a subscript names
index_ok(len, i) == -len <= i /\ i < len

cell(len, i) == IF i < 0 THEN i + len ELSE i

\* for i in self.graph[s]: if visited[i] == False: queue.append(i); ...
RECURSIVE BFS_for(_, _, _, _, _)
BFS_for(adj, j, len, visited, queue) ==
    IF j > Len(adj)
    THEN [raised |-> NoExc, visited |-> visited, queue |-> queue]
    ELSE IF ~index_ok(len, adj[j])
    THEN [raised |-> "IndexError", visited |-> visited, queue |-> queue]
    ELSE IF cell(len, adj[j]) \notin visited
    THEN BFS_for(adj, j + 1, len, visited \cup {cell(len, adj[j])},
                 Append(queue, adj[j]))
    ELSE BFS_for(adj, j + 1, len, visited, queue)

\* while queue: s = queue.pop(0); print(s); for i in self.graph[s]: ...
RECURSIVE BFS_while(_, _, _, _, _)
BFS_while(G, len, visited, queue, out) ==
    IF queue = <<>> THEN [graph |-> G, out |-> out, raised |-> NoExc]
    ELSE LET s == Head(queue)
             G1 == getitem_default(G, s)
             r == BFS_for(G1[s], 1, len, visited, Tail(queue)) IN
         IF r.raised # NoExc
         THEN [graph |-> G1, out |-> Append(out, s), raised |-> r.raised]
         ELSE BFS_while(G1, len, r.visited, r.queue, Append(out, s))

\* the whole of BFS(s): the graph afterwards, the printed nodes, the error
BFS(G, s) ==
    LET len == Cardinality(DOMAIN G) IN
    IF ~index_ok(len, s)
    THEN [graph |-> G, out |-> <<>>, raised |-> "IndexError"]
    ELSE BFS_while(G, len, {cell(len, s)}, <<s>>, <<>>)

\* ---- Graph_Shortest_Path ----
SPNodes == {"A", "B", "C", "D", "E", "F"}

\* Graph_Shortest_Path(d): an empty defaultdict if d, else the literal graph
Graph_Shortest_Path_init(d) ==
    [default |-> d,
     map |-> IF d THEN [k \in {} |-> <<>>]
             ELSE [k \in SPNodes |->
                     CASE k = "A" -> <<"B", "C">>
                       [] k = "B" -> <<"C", "D">>
                       [] k = "C" -> <<"D">>
                       [] k = "D" -> <<"C">>
                       [] k = "E" -> <<"F">>
                       [] k = "F" -> <<"C">>]]

\* self.graph[k]: the object afterwards and the list, or KeyError
getitem(G, k) ==
    IF k \in DOMAIN G.map THEN [raised |-> NoExc, G |-> G, val |-> G.map[k]]
    ELSE IF G.default
    THEN [raised |-> NoExc, G |-> [G EXCEPT !.map = getitem_default(G.map, k)],
          val |-> <<>>]
    ELSE [raised |-> "KeyError", G |-> G, val |-> <<>>]

\* self.graph.has_key(k): neither dict nor defaultdict has that method
has_key(G, k) == [raised |-> "AttributeError", val |-> FALSE]

\* find_all_paths(start, end, path=[])
find_all_paths(G, start, end, path) ==
    LET path1 == path \o <<start>>
        h == has_key(G, start)
        adj == getitem(G, start) IN
    IF start = end THEN Ret(<<path1>>)
    ELSE IF h.raised # NoExc THEN Raise(h.raised)
    ELSE IF ~h.val THEN Ret(<<>>)
    ELSE IF adj.raised # NoExc THEN Raise(adj.raised)
    ELSE IF \E j \in DOMAIN adj.val : adj.val[j] \notin Range(path1)
    THEN Raise(module_global("find_all_paths"))
    ELSE Ret(<<>>)

\* find_shortest_path_exponential(start, end, path=[])
find_shortest_path_exponential(G, start, end, path) ==
    LET path1 == path \o <<start>>
        adj == getitem(G, start) IN
    IF start = end THEN Ret(path1)
    ELSE IF start \notin DOMAIN G.map THEN RetNone
    ELSE IF \E j \in DOMAIN adj.val : adj.val[j] \notin Range(path1)
    THEN Raise(module_global("find_shortest_path"))
    ELSE RetNone

\* for next in self.graph[at]: if next not in dist: ...
RECURSIVE find_shortest_path_for(_, _, _, _, _)
find_shortest_path_for(adj, j, at, dist, q) ==
    IF j > Len(adj) THEN [dist |-> dist, q |-> q]
    ELSE IF adj[j] \notin DOMAIN dist
    THEN find_shortest_path_for(adj, j + 1, at,
             [x \in DOMAIN dist \cup {adj[j]} |->
                 IF x = adj[j] THEN <<dist[at], adj[j]>> ELSE dist[x]],
             Append(q, adj[j]))
    ELSE find_shortest_path_for(adj, j + 1, at, dist, q)

\* while len(q): at = q.popleft(); ...     return dist.get(end)
RECURSIVE find_shortest_path_while(_, _, _, _)
find_shortest_path_while(G, dist, q, end) ==
    IF q = <<>>
    THEN IF end \in DOMAIN dist THEN Ret(dist[end]) ELSE RetNone
    ELSE LET adj == getitem(G, Head(q)) IN
         IF adj.raised # NoExc THEN Raise(adj.raised)
         ELSE LET r == find_shortest_path_for(adj.val, 1, Head(q), dist,
                                              Tail(q)) IN
              find_shortest_path_while(adj.G, r.dist, r.q, end)

\* find_shortest_path(start, end): dist = {start: [start]}; q = deque(start)
find_shortest_path(G, start, end) ==
    IF module_global("deque") # NoExc THEN Raise(module_global("deque"))
    ELSE find_shortest_path_while(G, [x \in {start} |-> <<start>>],
                                  <<start>>, end)

\* ---- state machine ----
Iterating == {"o52n", "o54"}

GraphInit(d) ==
    /\ graph = EmptyGraph
    /\ sp = Graph_Shortest_Path_init(d)
    /\ gop = [name |-> "Graph_BFS", a |-> 0, b |-> 0]
    /\ gres = RetNone
    /\ gout = <<>>

Init ==
    /\ N = DefaultN
    /\ peers = <<>>
    /\ op = [name |-> "Peer", a |-> DefaultN, b |-> 0]
    /\ result = "None"
    /\ th = [t \in Threads |-> IdleFrame]
    /\ before = <<>>
    /\ sent = <<>>
    /\ instance = Cache_Singleton_new(None, 1)
    /\ handles = {instance}
    /\ GraphInit(FALSE)

\* Peer(N=n): __new__ hands out the object, __init__ sets N and empties
\* _peers on it
Construct(n) ==
    /\ LET obj == Cache_Singleton_new(instance, Cardinality(handles) + 1)
           fields == Peer_init(peers, n) IN
         /\ instance' = IF instance = None THEN obj ELSE instance
         /\ handles' = handles \cup {obj}
         /\ N' = fields.N
         /\ peers' = fields.peers
    /\ op' = [name |-> "Peer", a |-> n, b |-> 0]
    /\ result' = "None"
    /\ before' = peers
    /\ UNCHANGED <<th, sent>>
    /\ UNCHANGED gvars

SetOnline(id) ==
    /\ LET o == set_online(peers, N, id) IN
         /\ peers' = o.peers
         /\ result' = o.f.result
    /\ op' = [name |-> "set_online", a |-> id, b |-> 0]
    /\ before' = peers
    /\ UNCHANGED <<N, th, sent, instance, handles>>
    /\ UNCHANGED gvars

SetOffline(id) ==
    /\ LET o == set_offline(peers, N, id) IN
         /\ peers' = o.peers
         /\ result' = o.f.result
    /\ op' = [name |-> "set_offline", a |-> id, b |-> 0]
    /\ before' = peers
    /\ UNCHANGED <<N, th, sent, instance, handles>>
    /\ UNCHANGED gvars

Connect(a, b) ==
    /\ LET o == connect(peers, N, a, b) IN
         /\ peers' = o.peers
         /\ result' = o.f.result
    /\ op' = [name |-> "connect", a |-> a, b |-> b]
    /\ before' = peers
    /\ UNCHANGED <<N, th, sent, instance, handles>>
    /\ UNCHANGED gvars

SendMsg(a, b, msg) ==
    /\ LET o == send_msg(peers, N, sent, a, b, msg) IN
         /\ peers' = o.peers
         /\ sent' = o.sent
         /\ result' = o.result
    /\ op' = [name |-> "send_msg", a |-> a, b |-> b]
    /\ before' = peers
    /\ UNCHANGED <<N, th, instance, handles>>
    /\ UNCHANGED gvars

Next ==
    \/ \E n \in NValues : Construct(n)
    \/ \E id \in Ids : SetOnline(id)
    \/ \E id \in Ids : SetOffline(id)
    \/ \E a \in Ids, b \in Ids : Connect(a, b)
    \/ \E a \in Ids, b \in Ids, msg \in Msgs : SendMsg(a, b, msg)

Spec == Init /\ [][Next]_vars

\* ---- concurrent callers ----
\* the registry after Peer(N=n) and set_online(1), ..., set_online(k)
RECURSIVE Started(_, _)
Started(n, k) ==
    IF k = 0 THEN <<>> ELSE set_online(Started(n, k - 1), n, k).peers

InitConc ==
    /\ N \in 1..MaxN
    /\ \E k \in 0..NumIds :
         /\ peers = Started(N, k)
         /\ op = IF k = 0 THEN [name |-> "Peer", a |-> N, b |-> 0]
                         ELSE [name |-> "set_online", a |-> k, b |-> 0]
    /\ result = "None"
    /\ th = [t \in Threads |-> IdleFrame]
    /\ before = <<>>
    /\ sent = <<>>
    /\ instance = Cache_Singleton_new(None, 1)
    /\ handles = {instance}
    /\ GraphInit(FALSE)

\* a caller starts its call
CallStart(t, name, a, b) ==
    /\ th[t].pc = "idle"
    /\ th' = [th EXCEPT ![t] = Frame(name, a, b)]
    /\ UNCHANGED <<N, peers, op, result, before, sent, instance, handles>>
    /\ UNCHANGED gvars

\* a caller executes the next step of its call
CallStep(t) ==
    /\ th[t].pc \notin {"idle", "done"}
    /\ LET o == Step(peers, N, th[t])
           th2 == [th EXCEPT ![t] = o.f] IN
         /\ th' = th2
         /\ peers' = IF \E u \in Threads : th2[u].pc \in Iterating
                     THEN o.peers ELSE Compact(o.peers)
    /\ UNCHANGED <<N, op, result, before, sent, instance, handles>>
    /\ UNCHANGED gvars

NextConc ==
    \/ \E t \in Threads, id \in Ids : CallStart(t, "set_online", id, 0)
    \/ \E t \in Threads, id \in Ids : CallStart(t, "set_offline", id, 0)
    \/ \E t \in Threads, a \in Ids, b \in Ids : CallStart(t, "connect", a, b)
    \/ \E t \in Threads : CallStep(t)

SpecConc == InitConc /\ [][NextConc]_vars

\* ---- the graph objects ----
pvars == <<N, peers, op, result, th, before, sent, instance, handles>>

InitGraph ==
    /\ N = DefaultN
    /\ peers = <<>>
    /\ op = [name |-> "Peer", a |-> DefaultN, b |-> 0]
    /\ result = "None"
    /\ th = [t \in Threads |-> IdleFrame]
    /\ before = <<>>
    /\ sent = <<>>
    /\ instance = Cache_Singleton_new(None, 1)
    /\ handles = {instance}
    /\ \E d \in BOOLEAN : GraphInit(d)

AddEdge(u, v) ==
    /\ EdgeCount(graph, DOMAIN graph) < MaxEdges
    /\ graph' = addEdge(graph, u, v)
    /\ gop' = [name |-> "addEdge", a |-> u, b |-> v]
    /\ gres' = RetNone
    /\ gout' = <<>>
    /\ UNCHANGED <<sp, pvars>>

BFSCall(s) ==
    /\ LET o == BFS(graph, s) IN
         /\ graph' = o.graph
         /\ gout' = o.out
         /\ gres' = IF o.raised = NoExc THEN RetNone ELSE Raise(o.raised)
    /\ gop' = [name |-> "BFS", a |-> s, b |-> 0]
    /\ UNCHANGED <<sp, pvars>>

FindAllPaths(start, end) ==
    /\ gres' = find_all_paths(sp, start, end, <<>>)
    /\ gop' = [name |-> "find_all_paths", a |-> start, b |-> end]
    /\ gout' = <<>>
    /\ UNCHANGED <<graph, sp, pvars>>

FindShortestPathExponential(start, end) ==
    /\ gres' = find_shortest_path_exponential(sp, start, end, <<>>)
    /\ gop' = [name |-> "find_shortest_path_exponential",
               a |-> start, b |-> end]
    /\ gout' = <<>>
    /\ UNCHANGED <<graph, sp, pvars>>

FindShortestPath(start, end) ==
    /\ gres' = find_shortest_path(sp, start, end)
    /\ gop' = [name |-> "find_shortest_path", a |-> start, b |-> end]
    /\ gout' = <<>>
    /\ UNCHANGED <<graph, sp, pvars>>

NextGraph ==
    \/ \E u \in Nodes, v \in Nodes : AddEdge(u, v)
    \/ \E s \in Nodes : BFSCall(s)
    \/ \E start \in SPNodes, end \in SPNodes : FindAllPaths(start, end)
    \/ \E start \in SPNodes, end \in SPNodes :
          FindShortestPathExponential(start, end)
    \/ \E start \in SPNodes, end \in SPNodes : FindShortestPath(start, end)

SpecGraph == InitGraph /\ [][NextGraph]_vars

\* ---- properties ----
CallOf(name, a, b) == [name |-> name, a |-> a, b |-> b]

\* the connected set of an id, empty for an id that is not online
ConnectedOf(P, id) == IF isonline(P, id) THEN connected(P, id) ELSE {}

\* connect(a, b) is called with both online, not connected, below the cap
Connectable(P, n, a, b) ==
    /\ a # b
    /\ isonline(P, a) /\ isonline(P, b)
    /\ b \notin connected(P, a)
    /\ num_connected(P, a) < n - 1
    /\ num_connected(P, b) < n - 1

\* C1: after any sequence of calls, B is in A's connected set iff A is in
\* B's connected set, for all ids A and B.
C1_Symmetry ==
    \A a \in Ids, b \in Ids :
        b \in ConnectedOf(peers, a) <=> a \in ConnectedOf(peers, b)

\* a connect between two online peers below the cap has been attempted
C1_Witness ==
    /\ op.name = "connect" /\ op.a # op.b
    /\ isonline(peers, op.a) /\ isonline(peers, op.b)
    /\ num_connected(peers, op.a) < N - 1
    /\ result \notin {"False", "Too many connections"}

\* C2: with calls made one at a time, every online peer has at most N-1
\* connections.
C2_DegreeBound ==
    \A id \in Keys(peers) : num_connected(peers, id) <= N - 1

\* a connect was refused as too many while a peer sits at the cap N-1
C2_Witness ==
    /\ op.name = "connect" /\ result = "Too many connections"
    /\ isonline(peers, op.a)
    /\ num_connected(peers, op.a) = N - 1

\* C3: connect(A,B) on a connectable pair returns success, stores the edge
\* on both sides and changes nothing else.
C3_ConnectSucceeds ==
    [][\A a \in Ids, b \in Ids :
        (op' = CallOf("connect", a, b) /\ Connectable(peers, N, a, b))
        => /\ result' = "True"
           /\ b \in ConnectedOf(peers', a)
           /\ a \in ConnectedOf(peers', b)
           /\ all_online(peers') = all_online(peers)
           /\ \A c \in Keys(peers) \ {a, b} :
                  ConnectedOf(peers', c) = connected(peers, c)]_vars

\* no connected set names an id that is not online
ReferentialIntegrity(P) == \A p \in Keys(P) : connected(P, p) \subseteq Keys(P)

\* C4: after set_offline(id) on an online id, id is not online and in no
\* remaining connected set; the remaining peers keep their order and their
\* other connections; no connected set ever names an id that is not online.
C4_OfflineCleanup ==
    /\ []ReferentialIntegrity(peers)
    /\ [][\A id \in Ids :
          (op' = CallOf("set_offline", id, 0) /\ isonline(peers, id))
          => /\ ~isonline(peers', id)
             /\ \A p \in Keys(peers') : id \notin connected(peers', p)
             /\ Keys(peers') = Keys(peers) \ {id}
             /\ all_online(peers') = SelectSeq(all_online(peers),
                                               LAMBDA x : x # id)
             /\ \A p \in Keys(peers') :
                    connected(peers', p) = connected(peers, p) \ {id}]_vars

\* set_offline went past its online test on an id while other peers,
\* not connected to it, remain
C4_Witness ==
    /\ op.name = "set_offline"
    /\ result # "None"
    /\ ~isonline(peers, op.a)
    /\ Cardinality(Keys(peers)) >= 2

\* C5: connect between distinct, online, not-yet-connected peers raises
\* 'Too many connections' exactly when one of them has N-1 connections,
\* and then leaves the registry unchanged.
C5_DegreeExceeded ==
    [][\A a \in Ids, b \in Ids :
        (/\ op' = CallOf("connect", a, b)
         /\ a # b /\ isonline(peers, a) /\ isonline(peers, b)
         /\ b \notin connected(peers, a))
        => /\ (result' = "Too many connections")
                <=> (\/ num_connected(peers, a) = N - 1
                     \/ num_connected(peers, b) = N - 1)
           /\ (result' = "Too many connections")
                => (peers' = peers /\ N' = N)]_vars

\* a connect between two online peers was refused as too many
C5_Witness ==
    /\ op.name = "connect" /\ op.a # op.b
    /\ isonline(peers, op.a) /\ isonline(peers, op.b)
    /\ result = "Too many connections"

\* C6: connect(A,B), A # B, with A or B not online returns False and
\* leaves the registry unchanged.
C6_NotOnline ==
    [][\A a \in Ids, b \in Ids :
        (/\ op' = CallOf("connect", a, b)
         /\ a # b
         /\ ~isonline(peers, a) \/ ~isonline(peers, b))
        => (result' = "False" /\ peers' = peers /\ N' = N)]_vars

\* connect was refused with False while exactly one of the two is online
C6_Witness ==
    /\ op.name = "connect" /\ op.a # op.b
    /\ result = "False"
    /\ isonline(peers, op.a) /\ ~isonline(peers, op.b)

\* C8: set_offline never fails, and is a no-op on an id that is not online.
C8_SetOfflineNeverFails ==
    [][\A id \in Ids :
        (op' = CallOf("set_offline", id, 0))
        => /\ result' = "None"
           /\ ~isonline(peers, id) => peers' = peers]_vars

\* C9: under concurrent callers no online peer ever holds N or more
\* connections.
C9_DegreeBoundConcurrent ==
    \A id \in Ids :
        isonline(peers, id) => Cardinality(connected(peers, id)) < N

\* two connects sharing id_from are both past the degree test, with cap 1
C9_Witness ==
    \E t \in Threads, u \in Threads :
        /\ t # u /\ N = 2
        /\ th[t].pc = "c66" /\ th[u].pc = "c66"
        /\ th[t].a = th[u].a /\ th[t].b # th[u].b

\* C10: under concurrent callers no state has an edge in one direction
\* only or a connected set naming an id that is not online.
C10_NoPartialUpdate ==
    /\ ReferentialIntegrity(peers)
    /\ \A a \in Keys(peers), b \in Keys(peers) :
           b \in connected(peers, a) => a \in connected(peers, b)

\* connect(A,B) is about to store the edge while set_offline(B) has
\* already popped B
C10_Witness ==
    \E t \in Threads, u \in Threads :
        /\ th[t].name = "connect" /\ th[t].pc = "c66"
        /\ th[u].name = "set_offline" /\ th[u].a = th[t].b
        /\ th[u].pc \in {"o52", "o52n", "o54"}
        /\ ~isonline(peers, th[t].b)

\* C11: send_msg(A,B,msg) with A # B, both online, and connected already or
\* connectable, succeeds, prints (A,B,msg) exactly once and leaves A and B
\* connected to each other.
C11_SendDelivers ==
    [][\A a \in Ids, b \in Ids :
        (/\ op' = CallOf("send_msg", a, b)
         /\ a # b /\ isonline(peers, a) /\ isonline(peers, b)
         /\ b \in connected(peers, a) \/ Connectable(peers, N, a, b))
        => /\ result' \in {"None", "True"}
           /\ \E msg \in Msgs : sent' = Append(sent, <<a, b, msg>>)
           /\ b \in ConnectedOf(peers', a)
           /\ a \in ConnectedOf(peers', b)]_vars

\* C12: when A and B are not connected and connect(A,B) would return False
\* or raise 'Too many connections', send_msg(A,B,msg) ends the same way,
\* prints nothing and leaves the registry unchanged; whatever is printed is
\* between peers that are connected.
C12_SendFailsLikeConnect ==
    [][\A a \in Ids, b \in Ids :
        /\ (/\ op' = CallOf("send_msg", a, b)
            /\ a # b
            /\ b \notin ConnectedOf(peers, a)
            /\ connect(peers, N, a, b).f.result
                  \in {"False", "Too many connections"})
           => /\ result' = connect(peers, N, a, b).f.result
              /\ sent' = sent
              /\ peers' = peers
        /\ (op' = CallOf("send_msg", a, b) /\ sent' # sent)
           => b \in ConnectedOf(peers', a)]_vars

\* C18: set_online(id) on an id that is already online changes nothing and
\* does not fail.
C18_SetOnlineIdempotent ==
    [][\A id \in Ids :
        (op' = CallOf("set_online", id, 0) /\ isonline(peers, id))
        => (peers' = peers /\ N' = N /\ result' = "None")]_vars

\* set_online was called on an id that was online and not the last one
C18_Witness ==
    /\ op.name = "set_online"
    /\ isonline(before, op.a)
    /\ Len(before) >= 2 /\ before[Len(before)].id # op.a
    /\ peers = before

\* C19: all objects returned by Peer(...) are one and the same object.
C19_Singleton ==
    \A h1 \in handles, h2 \in handles : h1 = h2 /\ h1 = instance

\* Peer(...) was called again after peers had been put online
C19_Witness ==
    /\ op.name = "Peer"
    /\ before # <<>>
    /\ handles = {instance}

\* C20: right after any Peer(...) the registry has no online peer and no
\* connection, and N is the given one.
C20_ConstructResets ==
    op.name = "Peer" => (peers = <<>> /\ N = op.a)

\* Peer(...) was called on a registry with two or more peers online
C20_Witness ==
    /\ op.name = "Peer"
    /\ Len(before) >= 2
    /\ Keys(peers) = {}


\* ---- graph search: what the adjacency structure admits ----
Succ(G, x) == IF x \in DOMAIN G THEN Range(G[x]) ELSE {}

RECURSIVE Closure(_, _)
Closure(G, R) ==
    LET R1 == R \cup UNION {Succ(G, x) : x \in R} IN
    IF R1 = R THEN R ELSE Closure(G, R1)

Reach(G, s) == Closure(G, {s})

IsPathIn(G, p) == \A i \in 1..(Len(p) - 1) : p[i + 1] \in Succ(G, p[i])

NoRepeat(p) == \A i \in DOMAIN p, j \in DOMAIN p : p[i] = p[j] => i = j

RECURSIVE PathsOfLen(_, _, _)
PathsOfLen(G, s, n) ==
    IF n = 1 THEN {<<s>>}
    ELSE {Append(p, y) : p \in PathsOfLen(G, s, n - 1),
                         y \in UNION {Succ(G, x) : x \in Reach(G, s)}}

SimplePaths(G, s, e) ==
    {p \in UNION {PathsOfLen(G, s, n) : n \in 1..Cardinality(Reach(G, s))} :
        IsPathIn(G, p) /\ NoRepeat(p) /\ p[Len(p)] = e}

MinLen(G, s, e) ==
    CHOOSE n \in 1..Cardinality(Reach(G, s)) :
        /\ \E p \in SimplePaths(G, s, e) : Len(p) = n
        /\ \A p \in SimplePaths(G, s, e) : Len(p) >= n

\* C13: a breadth-first traversal from a source that is a key of the
\* adjacency structure does not fail, and prints the source first and then
\* exactly the nodes reachable from it, each once.
C13_BFSReachable ==
    [][\A s \in Nodes :
        (gop' = [name |-> "BFS", a |-> s, b |-> 0] /\ s \in DOMAIN graph)
        => /\ gres'.raised = NoExc
           /\ gout' # <<>>
           /\ gout'[1] = s
           /\ Range(gout') = Reach(graph, s)
           /\ NoRepeat(gout')]_vars

\* C14: shortestPath returns none when end is unreachable from start, and
\* otherwise a flat path from start to end along edges with the fewest
\* edges possible ([start] when start = end).
C14_ShortestPath ==
    [][\A s \in SPNodes, e \in SPNodes :
        gop' \in {[name |-> "find_shortest_path", a |-> s, b |-> e],
                  [name |-> "find_shortest_path_exponential",
                   a |-> s, b |-> e]}
        => /\ gres'.raised = NoExc
           /\ IF e \notin Reach(sp.map, s) THEN gres'.isNone
              ELSE /\ ~gres'.isNone
                   /\ gres'.val \in SimplePaths(sp.map, s, e)
                   /\ Len(gres'.val) = MinLen(sp.map, s, e)]_vars

\* C15: allSimplePaths returns exactly the simple paths from start to end,
\* each once.
C15_AllSimplePaths ==
    [][\A s \in SPNodes, e \in SPNodes :
        gop' = [name |-> "find_all_paths", a |-> s, b |-> e]
        => /\ gres'.raised = NoExc
           /\ ~gres'.isNone
           /\ Range(gres'.val) = SimplePaths(sp.map, s, e)
           /\ NoRepeat(gres'.val)]_vars

\* C16: a breadth-first traversal from a source that is not a key of the
\* adjacency structure fails and prints nothing.
C16_BFSUnknownSource ==
    [][\A s \in Nodes :
        (gop' = [name |-> "BFS", a |-> s, b |-> 0] /\ s \notin DOMAIN graph)
        => /\ gres'.raised # NoExc
           /\ gout' = <<>>]_vars

\* C17: a breadth-first traversal leaves the adjacency structure as it was,
\* so the same call made again has the same outcome.
C17_BFSReadOnly ==
    [][\A s \in Nodes :
        gop' = [name |-> "BFS", a |-> s, b |-> 0]
        => /\ graph' = graph
           /\ BFS(graph', s).out = gout'
           /\ BFS(graph', s).raised = BFS(graph, s).raised]_vars

====
